---- MODULE Spec2Model ----
(***************************************************************************)
(* Model of the Pokemon parser (src/index.py): the tokenizer               *)
(* (extract_names_in_order), the cleaner (clean_name_token), the           *)
(* deduplicator (dedupe_preserve_first) and the two HTTP handlers with the *)
(* exception middleware.                                                   *)
(*                                                                         *)
(* A text is a sequence of Unicode code points.  The character predicates  *)
(* below are exact for the alphabet the model draws its inputs from        *)
(* (Latin-1 plus the punctuation the source names explicitly).             *)
(***************************************************************************)
EXTENDS Integers, Sequences, FiniteSets, TLC

----------------------------------------------------------------------------
(* Generic helpers on sequences and sets.                                  *)

Range(s) == {s[i] : i \in DOMAIN s}

Min(S) == CHOOSE x \in S : \A y \in S : x <= y

Max(S) == CHOOSE x \in S : \A y \in S : x >= y

\* s[from..] (empty when from is past the end)
Tail_(s, from) == SubSeq(s, from, Len(s))

\* does sub occur in s at 1-based index p
OccursAt(s, p, sub) ==
    /\ p >= 1
    /\ p + Len(sub) - 1 <= Len(s)
    /\ \A k \in 1..Len(sub) : s[p + k - 1] = sub[k]

\* `sub in s`
Contains(s, sub) == \E p \in 1..Len(s) : OccursAt(s, p, sub)

\* index of the first occurrence of sub at or after from, Len(s)+1 if none
Find(s, sub, from) ==
    Min({p \in from..Len(s) : OccursAt(s, p, sub)} \cup {Len(s) + 1})

----------------------------------------------------------------------------
(* Character classes, as Python's re module and str methods define them.   *)

SPARKLE_CH == 10024     \* U+2728
COLON == 58
NEWLINE == 10
SPACE == 32
FULLWIDTH_SPACE == 12288   \* U+3000
LPAREN == 40

\* \s and str.strip(): the characters for which str.isspace() is true
IsSpace(c) ==
    \/ (c >= 9 /\ c <= 13)
    \/ (c >= 28 /\ c <= 32)
    \/ c = 133 \/ c = 160 \/ c = 5760
    \/ (c >= 8192 /\ c <= 8202)
    \/ c = 8232 \/ c = 8233 \/ c = 8239 \/ c = 8287 \/ c = 12288

\* \d
IsDigit(c) == c >= 48 /\ c <= 57

\* \w : alphanumerics and the underscore
IsWord(c) ==
    \/ IsDigit(c)
    \/ (c >= 65 /\ c <= 90) \/ c = 95 \/ (c >= 97 /\ c <= 122)
    \/ c = 170 \/ c = 178 \/ c = 179 \/ c = 181 \/ c = 185 \/ c = 186
    \/ (c >= 188 /\ c <= 190)
    \/ (c >= 192 /\ c <= 214) \/ (c >= 216 /\ c <= 246)
    \/ (c >= 248 /\ c <= 255)
    \/ c = 956

\* variant: the class without the digits and the underscore, [\W]
IsLeadingNoise_nonword_only(c) == ~IsWord(c)

\* [\d\W_] : the leading noise class of clean_name_token
IsLeadingNoise(c) == IsDigit(c) \/ ~IsWord(c) \/ c = 95

\* [A-Za-zÀ-ÖØ-öø-ÿ'’\.·　\-–— ]
IsNameChar(c) ==
    \/ c = 32 \/ c = 39 \/ c = 45 \/ c = 46
    \/ (c >= 65 /\ c <= 90) \/ (c >= 97 /\ c <= 122)
    \/ c = 183
    \/ (c >= 192 /\ c <= 214) \/ (c >= 216 /\ c <= 246)
    \/ (c >= 248 /\ c <= 255)
    \/ c = 8211 \/ c = 8212 \/ c = 8217 \/ c = 12288

\* the same class under re.IGNORECASE (GENDER_TAG_RE)
IsNameCharIgnoreCase(c) ==
    \/ IsNameChar(c)
    \/ c = 304 \/ c = 305 \/ c = 376 \/ c = 383 \/ c = 7838
    \/ c = 8490 \/ c = 8491

\* simple lower-casing used by re.IGNORECASE for the ASCII literals
LowerChar(c) ==
    IF c >= 65 /\ c <= 90 THEN c + 32
    ELSE IF c = 8490 THEN 107
    ELSE IF c = 383 THEN 115
    ELSE IF c = 304 \/ c = 305 THEN 105
    ELSE c

\* str.casefold() of one character
CasefoldChar(c) ==
    IF c >= 65 /\ c <= 90 THEN <<c + 32>>
    ELSE IF (c >= 192 /\ c <= 214) \/ (c >= 216 /\ c <= 222) THEN <<c + 32>>
    ELSE IF c = 223 THEN <<115, 115>>
    ELSE IF c = 181 THEN <<956>>
    ELSE <<c>>

RECURSIVE casefold(_)
\* str.casefold()
casefold(s) ==
    IF Len(s) = 0 THEN <<>>
    ELSE IF Len(s) = 1 THEN CasefoldChar(s[1])
    ELSE casefold(SubSeq(s, 1, Len(s) \div 2))
         \o casefold(SubSeq(s, Len(s) \div 2 + 1, Len(s)))

----------------------------------------------------------------------------
(* str methods used by the cleaner.                                        *)

\* str.strip()
strip(s) ==
    LET keep == {i \in 1..Len(s) : ~IsSpace(s[i])}
    IN  IF keep = {} THEN <<>> ELSE SubSeq(s, Min(keep), Max(keep))

\* str.replace(a, b) for single characters
replace(s, a, b) == [i \in 1..Len(s) |-> IF s[i] = a THEN b ELSE s[i]]

\* str.rstrip(chars)
rstrip(s, chars) ==
    LET keep == {i \in 1..Len(s) : s[i] \notin chars}
    IN  IF keep = {} THEN <<>> ELSE SubSeq(s, 1, Max(keep))

\* name.split(sep, 1)[0]
SplitFirst(s, sep) == SubSeq(s, 1, Find(s, sep, 1) - 1)

----------------------------------------------------------------------------
(* clean_name_token                                                        *)

\* for q in ['"', U+201C, U+201D, "'", U+2019]
QUOTES == << <<34>>, <<8220>>, <<8221>>, <<39>>, <<8217>> >>

\* for sep in [" - ", " — ", " – ", " —", " –", " -", " / "]
SEPARATORS ==
    << <<32, 45, 32>>, <<32, 8212, 32>>, <<32, 8211, 32>>,
       <<32, 8212>>, <<32, 8211>>, <<32, 45>>, <<32, 47, 32>> >>

\* name.rstrip("·•°●[]{}<>")
STRAY_PUNCTUATION == {183, 8226, 176, 9679, 91, 93, 123, 125, 60, 62}

RECURSIVE CutAtEach(_, _)
\* for sep in seps: if sep in name: name = name.split(sep, 1)[0].strip()
CutAtEach(name, seps) ==
    IF seps = <<>> THEN name
    ELSE CutAtEach(IF Contains(name, Head(seps))
                   THEN strip(SplitFirst(name, Head(seps)))
                   ELSE name,
                   Tail(seps))

\* re.sub(r"^[\d\W_]+", "", name)
StripLeadingNoise(s) ==
    Tail_(s, Min({i \in 1..Len(s) : ~IsLeadingNoise(s[i])} \cup {Len(s) + 1}))

\* is position p (between s[p-1] and s[p]) a \b word boundary
WordBoundary(s, p) ==
    LET before == p >= 2 /\ p - 1 <= Len(s) /\ IsWord(s[p - 1])
        after  == p >= 1 /\ p <= Len(s) /\ IsWord(s[p])
    IN  before # after

\* a literal of the pattern under re.IGNORECASE, at index p
MatchLiteral(s, p, lit) ==
    /\ p + Len(lit) - 1 <= Len(s)
    /\ \A k \in 1..Len(lit) : LowerChar(s[p + k - 1]) = lit[k]

\* first index at or after p that is not whitespace (end of a greedy \s*)
SkipSpaces(s, p) ==
    Min({i \in p..Len(s) : ~IsSpace(s[i])} \cup {Len(s) + 1})

LIT_gift == <<103, 105, 102, 116>>
LIT_from == <<102, 114, 111, 109>>
LIT_fs == <<102, 115>>
LIT_giveaway == <<103, 105, 118, 101, 97, 119, 97, 121>>
LIT_meow == <<109, 101, 111, 119>>
LIT_wattrel == <<58, 119, 97, 116, 116, 114, 101, 108>>

\* TRAILING_NOTES_RE =
\*   \b(?:gift\s+from|fs\b|giveaway\b|meow\b|:wattrel:|:wattrel\b|:wattrel:?\b)\b.*
\* The index just past the alternation when the pattern matches at p, else 0.
TRAILING_NOTES_RE(s, p) ==
    IF ~WordBoundary(s, p) THEN 0
    ELSE LET q == SkipSpaces(s, p + 4)
         IN
         IF /\ MatchLiteral(s, p, LIT_gift)
            /\ q > p + 4
            /\ MatchLiteral(s, q, LIT_from)
            /\ WordBoundary(s, q + 4)
         THEN q + 4
         ELSE IF MatchLiteral(s, p, LIT_fs) /\ WordBoundary(s, p + 2)
         THEN p + 2
         ELSE IF MatchLiteral(s, p, LIT_giveaway) /\ WordBoundary(s, p + 8)
         THEN p + 8
         ELSE IF MatchLiteral(s, p, LIT_meow) /\ WordBoundary(s, p + 4)
         THEN p + 4
         ELSE IF /\ MatchLiteral(s, p, LIT_wattrel)
                 /\ p + 8 <= Len(s) /\ s[p + 8] = COLON
                 /\ WordBoundary(s, p + 9)
         THEN p + 9
         ELSE IF MatchLiteral(s, p, LIT_wattrel) /\ WordBoundary(s, p + 8)
         THEN p + 8
         ELSE 0

RECURSIVE SubTrailingNotes(_, _)
\* re.sub(TRAILING_NOTES_RE, "", name), scanning from index pos
SubTrailingNotes(s, pos) ==
    LET hits == {p \in pos..Len(s) : TRAILING_NOTES_RE(s, p) > 0}
    IN  IF hits = {} THEN Tail_(s, pos)
        ELSE LET p == Min(hits)
                 \* .* runs to the end of the line
                 e == Find(s, <<NEWLINE>>, TRAILING_NOTES_RE(s, p))
             IN  SubSeq(s, pos, p - 1) \o SubTrailingNotes(s, e)

\* re.sub(r"\s+", " ", name)
CollapseSpaces(s) ==
    LET keep == SelectSeq([i \in 1..Len(s) |-> i],
                          LAMBDA i : ~IsSpace(s[i]) \/ i = 1 \/ ~IsSpace(s[i - 1]))
    IN  [k \in 1..Len(keep) |-> IF IsSpace(s[keep[k]]) THEN SPACE ELSE s[keep[k]]]

clean_name_token(raw) ==
    IF raw = <<>> THEN <<>>
    ELSE LET n1 == strip(replace(raw, FULLWIDTH_SPACE, SPACE))
             n2 == strip(StripLeadingNoise(n1))
             n3 == CutAtEach(n2, QUOTES)
             n4 == CutAtEach(n3, << <<LPAREN>> >>)
             n5 == CutAtEach(n4, SEPARATORS)
             n6 == strip(SubTrailingNotes(n5, 1))
             n7 == rstrip(n6, STRAY_PUNCTUATION)
         IN  strip(CollapseSpaces(n7))

----------------------------------------------------------------------------
(* The three recognition rules.  Each operator gives, for a 1-based index  *)
(* i of the text, the index just past the match that starts at i, or 0     *)
(* when the pattern does not match there.                                  *)

MAX_RUN == 120
MIN_RUN == 2

\* first colon at or after index from, Len(t)+1 if none
NextColon(t, from) == Find(t, <<COLON>>, from)

\* SPARKLE_RE = U+2728 \s* ([^:]+) :
SPARKLE_RE(t, i) ==
    IF t[i] = SPARKLE_CH /\ NextColon(t, i + 1) <= Len(t)
                         /\ NextColon(t, i + 1) >= i + 2
    THEN NextColon(t, i + 1) + 1
    ELSE 0

\* group(1) of SPARKLE_RE: \s* is greedy but leaves one character to [^:]+
SparkleGroup(t, i) ==
    LET j == NextColon(t, i + 1)
    IN  SubSeq(t, Min({SkipSpaces(t, i + 1), j - 1}), j - 1)

\* the name class, with or without re.IGNORECASE
InNameClass(c, ignorecase) ==
    IF ignorecase THEN IsNameCharIgnoreCase(c) ELSE IsNameChar(c)

\* end of the maximal run of name characters that starts at k
RunEnd(t, k, ignorecase) ==
    Min({e \in k..Len(t) : ~InNameClass(t[e], ignorecase)} \cup {Len(t) + 1})

\* ([class]{2,120}): starting at k: the run is followed by the colon
RunThenColon(t, k, ignorecase) ==
    LET e == RunEnd(t, k, ignorecase)
    IN  /\ e - k >= MIN_RUN
        /\ e - k <= MAX_RUN
        /\ e <= Len(t)
        /\ t[e] = COLON

GENDERS == << <<109, 97, 108, 101>>,                    \* male
              <<102, 101, 109, 97, 108, 101>>,          \* female
              <<117, 110, 107, 110, 111, 119, 110>> >>  \* unknown

\* GENDER_TAG_RE = (?<!\S)([class]{2,120}):\s*(?:male|female|unknown)\b
GENDER_TAG_RE(t, i) ==
    IF /\ (i = 1 \/ IsSpace(t[i - 1]))
       /\ RunThenColon(t, i, TRUE)
    THEN LET q == SkipSpaces(t, RunEnd(t, i, TRUE) + 1)
             hit == {g \in 1..Len(GENDERS) :
                        /\ MatchLiteral(t, q, GENDERS[g])
                        /\ WordBoundary(t, q + Len(GENDERS[g]))}
         IN  IF hit = {} THEN 0 ELSE q + Len(GENDERS[Min(hit)])
    ELSE 0

GenderGroup(t, i) == SubSeq(t, i, RunEnd(t, i, TRUE) - 1)

\* where group(1) of LINE_START_NAME_RE starts for a match at line start i:
\* \s* is greedy and gives characters back one at a time; 0 when no match
LineStartGroupStart(t, i) ==
    LET ks == {k \in i..SkipSpaces(t, i) : RunThenColon(t, k, FALSE)}
    IN  IF ks = {} THEN 0 ELSE Max(ks)

\* LINE_START_NAME_RE = (?m)^\s*([class]{2,120}):
LINE_START_NAME_RE(t, i) ==
    IF (i = 1 \/ t[i - 1] = NEWLINE) /\ LineStartGroupStart(t, i) > 0
    THEN RunEnd(t, LineStartGroupStart(t, i), FALSE) + 1
    ELSE 0

LineStartGroup(t, i) ==
    LET k == LineStartGroupStart(t, i)
    IN  SubSeq(t, k, RunEnd(t, k, FALSE) - 1)

RECURSIVE finditer(_, _)
\* the starts of the leftmost non-overlapping matches at or after pos;
\* ends[i] is the index just past the match at i, or 0
finditer(ends, pos) ==
    LET hits == {i \in pos..Len(ends) : ends[i] > 0}
    IN  IF hits = {} THEN <<>>
        ELSE <<Min(hits)>> \o finditer(ends, ends[Min(hits)])

\* sorted(seq, key=...) : a stable sort; less[i, j] tells whether the key
\* of s[i] is below the key of s[j]
StableSort(s, less) ==
    LET rank(i) == Cardinality({j \in DOMAIN s :
                       less[j, i] \/ (~less[i, j] /\ j < i)}) + 1
    IN  [r \in 1..Len(s) |-> s[CHOOSE i \in DOMAIN s : rank(i) = r]]

\* t[0] < u[0] for two (offset, name) pairs
StartLess(a, b) == a[1] < b[1]

\* m.group(1) of the match of a rule at index i
Group(t, i, rule) ==
    CASE rule = "sparkle" -> SparkleGroup(t, i)
      [] rule = "gender" -> GenderGroup(t, i)
      [] rule = "linestart" -> LineStartGroup(t, i)

\* the (m.start(), cleaned) pairs one rule appends, empty names dropped
RuleMatches(t, starts, rule) ==
    SelectSeq([k \in 1..Len(starts) |->
                  <<starts[k] - 1,
                    clean_name_token(strip(Group(t, starts[k], rule)))>>],
              LAMBDA m : m[2] # <<>>)

\* for m in SPARKLE_RE.finditer(text)
SparkleMatches(t) ==
    RuleMatches(t, finditer([i \in 1..Len(t) |-> SPARKLE_RE(t, i)], 1),
                "sparkle")

\* for m in GENDER_TAG_RE.finditer(text)
GenderMatches(t) ==
    RuleMatches(t, finditer([i \in 1..Len(t) |-> GENDER_TAG_RE(t, i)], 1),
                "gender")

\* for m in LINE_START_NAME_RE.finditer(text)
LineStartMatches(t) ==
    RuleMatches(t, finditer([i \in 1..Len(t) |-> LINE_START_NAME_RE(t, i)], 1),
                "linestart")

\* matches before the sort: sparkle, then gender-tag, then line-start
CollectMatches(t) ==
    SparkleMatches(t) \o GenderMatches(t) \o LineStartMatches(t)

\* sort by t[0]
SortByStart(ms) ==
    StableSort(ms, [i, j \in DOMAIN ms |-> StartLess(ms[i], ms[j])])

\* variant: the matches left in rule order, without the sort
SortedMatches_unsorted(t) == CollectMatches(t)

\* matches.sort(key=lambda t: t[0])
SortedMatches(t) == SortByStart(CollectMatches(t))

\* [name for _, name in matches]
NamesOf(matches) == [k \in 1..Len(matches) |-> matches[k][2]]

extract_names_in_order(t) ==
    IF t = <<>> THEN <<>> ELSE NamesOf(SortedMatches(t))

----------------------------------------------------------------------------
(* dedupe_preserve_first                                                   *)

\* str.lower() of one character (Latin-1)
LowerCaseChar(c) ==
    IF (c >= 65 /\ c <= 90) \/ (c >= 192 /\ c <= 214) \/ (c >= 216 /\ c <= 222)
    THEN c + 32
    ELSE c

\* variant: key = n.lower(), which keeps U+00DF apart from "ss"
NameKey_lower(n) == [i \in 1..Len(n) |-> LowerCaseChar(n[i])]

\* key = n.casefold()
NameKey(n) == casefold(n)

RECURSIVE DedupeLoop(_, _, _)
\* the loop body over names: seen is the ordered key -> form mapping,
\* counts the Counter
DedupeLoop(ns, seen, counts) ==
    IF ns = <<>> THEN [seen |-> seen, counts |-> counts]
    ELSE LET n == Head(ns)
             key == NameKey(n)
             counts2 == [k \in DOMAIN counts \cup {key} |->
                            IF k = key
                            THEN (IF k \in DOMAIN counts THEN counts[k] ELSE 0) + 1
                            ELSE counts[k]]
             seen2 == IF \E i \in DOMAIN seen : seen[i].key = key
                      THEN seen
                      ELSE Append(seen, [key |-> key, form |-> n])
         IN  DedupeLoop(Tail(ns), seen2, counts2)

\* unique_list = list(seen.values())
UniqueList(seen) == [i \in 1..Len(seen) |-> seen[i].form]

\* the entries of seen whose count exceeds one
Repeated(seen, counts) == SelectSeq(seen, LAMBDA e : counts[e.key] > 1)

\* variant: the map holds the total count, not the count beyond the first
DuplicatesMap_total(seen, counts) ==
    [i \in 1..Len(seen) |-> <<seen[i].form, counts[seen[i].key]>>]

\* {seen[k]: counts[k] - 1 ...} over the entries of seen that are passed
\* (a dict: pairs of name and count in insertion order)
DuplicatesMap(seen, counts) ==
    [i \in 1..Len(seen) |-> <<seen[i].form, counts[seen[i].key] - 1>>]

\* the pair dedupe_preserve_first returns, from the loop's final state
DedupeResult(r) ==
    [unique_list |-> UniqueList(r.seen),
     duplicates_map |-> DuplicatesMap(Repeated(r.seen, r.counts), r.counts)]

dedupe_preserve_first(ns) ==
    DedupeResult(DedupeLoop(ns, <<>>, [k \in {} |-> 0]))

----------------------------------------------------------------------------
(* Rendering: the result text, html.escape and str.format.                 *)

\* "Owned Pokémon (unique, first-seen form preserved):"
OWNED_HEADER ==
    <<79, 119, 110, 101, 100, 32, 80, 111, 107, 233, 109, 111, 110, 32, 40,
      117, 110, 105, 113, 117, 101, 44, 32, 102, 105, 114, 115, 116, 45,
      115, 101, 101, 110, 32, 102, 111, 114, 109, 32, 112, 114, 101, 115,
      101, 114, 118, 101, 100, 41, 58>>

\* "No Pokémon names found."
NO_NAMES_LINE ==
    <<78, 111, 32, 80, 111, 107, 233, 109, 111, 110, 32, 110, 97, 109, 101,
      115, 32, 102, 111, 117, 110, 100, 46>>

\* "Duplicate counts (name: duplicate_count) — duplicates beyond the first:"
DUPLICATES_HEADER ==
    <<68, 117, 112, 108, 105, 99, 97, 116, 101, 32, 99, 111, 117, 110, 116,
      115, 32, 40, 110, 97, 109, 101, 58, 32, 100, 117, 112, 108, 105, 99,
      97, 116, 101, 95, 99, 111, 117, 110, 116, 41, 32, 8212, 32, 100, 117,
      112, 108, 105, 99, 97, 116, 101, 115, 32, 98, 101, 121, 111, 110,
      100, 32, 116, 104, 101, 32, 102, 105, 114, 115, 116, 58>>

\* "None"
NONE_LINE ==
    <<78, 111, 110, 101>>

\* "Upload a .txt or paste the Pokétwo message and click Upload & Process"
FORM_HINT ==
    <<85, 112, 108, 111, 97, 100, 32, 97, 32, 46, 116, 120, 116, 32, 111,
      114, 32, 112, 97, 115, 116, 101, 32, 116, 104, 101, 32, 80, 111, 107,
      233, 116, 119, 111, 32, 109, 101, 115, 115, 97, 103, 101, 32, 97,
      110, 100, 32, 99, 108, 105, 99, 107, 32, 85, 112, 108, 111, 97, 100,
      32, 38, 32, 80, 114, 111, 99, 101, 115, 115>>

\* the template, split into the tokens str.format's parser sees: literal
\* text, the braces, and inside a replacement field the field name, the
\* colon and the format spec
HTML_UI ==
    << "<!doctype html>\n<html>\n<head><meta charset=\"utf-8\"><title>Pokémon Parser</title>\n<style>\n  body",
       "{",
       "font-family",
       ":",
       "Inter,Arial,sans-serif;margin:22px;background:#f6f7fb;color:#111",
       "}",
       "\n  .card",
       "{",
       "background",
       ":",
       "#fff;padding:14px;border-radius:8px;box-shadow:0 2px 6px rgba(0,0,0,0.06);max-width:900px",
       "}",
       "\n  pre",
       "{",
       "white-space",
       ":",
       "pre-wrap;font-family:monospace;background:#f8f9fb;padding:10px;border-radius:6px",
       "}",
       "\n  textarea",
       "{",
       "width",
       ":",
       "100%;height:160px;font-family:monospace;padding:8px;border-radius:6px",
       "}",
       "\n  .row",
       "{",
       "display",
       ":",
       "flex;gap:8px;align-items:center",
       "}",
       "\n  .hint",
       "{",
       "color",
       ":",
       "#666;font-size:13px;margin-top:8px",
       "}",
       "\n</style>\n</head>\n<body>\n  <h1>Pokémon Parser</h1>\n  <div class=\"card\">\n    <form method=\"post\" enctype=\"multipart/form-data\">\n      <div class=\"row\">\n        <input type=\"file\" name=\"file\" accept=\".txt\">\n        <button type=\"submit\">Upload & Process</button>\n      </div>\n      <div style=\"margin-top:12px\">\n        <label><strong>Or paste message text (will be used if no file uploaded):</strong></label>\n        <textarea name=\"text\" placeholder=\"Paste the Pokétwo message here...\"></textarea>\n      </div>\n      <div class=\"hint\">\n        Notes: case-insensitive dedupe (preserves first seen spelling), prefixes like \"Galarian\" are <em>not</em> merged with base species.\n        Nicknames/notes such as \"gift from ...\" or quoted nicknames will be removed before dedupe.\n      </div>\n    </form>\n\n    <h3>Result:</h3>\n    <pre>",
       "{",
       "result_block",
       "}",
       "</pre>\n  </div>\n</body></html>\n" >>

\* a < b for two strings (code point order)
StrLess(a, b) ==
    \E k \in 1..(Min({Len(a), Len(b)}) + 1) :
        /\ \A j \in 1..(k - 1) : a[j] = b[j]
        /\ \/ (k > Len(a) /\ k <= Len(b))
           \/ (k <= Len(a) /\ k <= Len(b) /\ a[k] < b[k])

\* variant: the names compared as they are, case-sensitively
CasefoldLess_ordinal(a, b) == StrLess(a, b)

\* key=lambda s: s.casefold()
CasefoldLess(a, b) == StrLess(casefold(a), casefold(b))

\* sorted(duplicates_map.keys(), key=lambda s: s.casefold())
SortByCasefold(keys) ==
    StableSort(keys, [i, j \in DOMAIN keys |-> CasefoldLess(keys[i], keys[j])])

\* duplicates_map.keys()
DictKeys(dups) == [i \in 1..Len(dups) |-> dups[i][1]]

SortedDuplicateNames(dups) == SortByCasefold(DictKeys(dups))

\* duplicates_map[name]
DictGet(dups, name) ==
    dups[CHOOSE i \in DOMAIN dups : dups[i][1] = name][2]

RECURSIVE IntToStr(_)
\* str(n) for n >= 0
IntToStr(n) ==
    IF n < 10 THEN <<48 + n>> ELSE IntToStr(n \div 10) \o <<48 + (n % 10)>>

\* f"{name}: {duplicates_map[name]}"
DuplicateLine(dups, name) ==
    name \o <<COLON, SPACE>> \o IntToStr(DictGet(dups, name))

\* lines.append(f"{name}: {duplicates_map[name]}") for name in sorted
DuplicateLines(dups, sorted) ==
    [k \in 1..Len(sorted) |-> DuplicateLine(dups, sorted[k])]

\* the list `lines` that upload builds
ResultLines(unique, dups) ==
    (IF unique # <<>> THEN <<OWNED_HEADER>> \o unique ELSE <<NO_NAMES_LINE>>)
    \o << <<>>, DUPLICATES_HEADER >>
    \o (IF dups # <<>>
        THEN DuplicateLines(dups, SortedDuplicateNames(dups))
        ELSE <<NONE_LINE>>)

RECURSIVE JoinLines(_)
\* "\n".join(lines)
JoinLines(ls) ==
    IF ls = <<>> THEN <<>>
    ELSE IF Len(ls) = 1 THEN ls[1]
    ELSE ls[1] \o <<NEWLINE>> \o JoinLines(Tail(ls))

\* html.escape of one character (quote=True)
EscapeChar(c) ==
    IF c = 38 THEN <<38, 97, 109, 112, 59>>            \* &amp;
    ELSE IF c = 60 THEN <<38, 108, 116, 59>>           \* &lt;
    ELSE IF c = 62 THEN <<38, 103, 116, 59>>           \* &gt;
    ELSE IF c = 34 THEN <<38, 113, 117, 111, 116, 59>> \* &quot;
    ELSE IF c = 39 THEN <<38, 35, 120, 50, 55, 59>>    \* &#x27;
    ELSE <<c>>

RECURSIVE escape(_)
\* html.escape
escape(s) ==
    IF Len(s) = 0 THEN <<>>
    ELSE IF Len(s) = 1 THEN EscapeChar(s[1])
    ELSE escape(SubSeq(s, 1, Len(s) \div 2))
         \o escape(SubSeq(s, Len(s) \div 2 + 1, Len(s)))

RECURSIVE FormatFrom(_, _, _)
\* str.format over the template tokens from index k; kwargs maps field
\* names to values.  raised is "" or the exception the call raises.
FormatFrom(tpl, k, kwargs) ==
    IF k > Len(tpl) THEN [raised |-> "", out |-> <<>>]
    ELSE
    LET lit(part, next) ==
            LET rest == FormatFrom(tpl, next, kwargs)
            IN  IF rest.raised # "" THEN rest
                ELSE [raised |-> "", out |-> <<part>> \o rest.out]
        close == Min({j \in (k + 1)..Len(tpl) : tpl[j] = "}"} \cup {Len(tpl) + 1})
    IN
    IF tpl[k] = "{"
    THEN IF k + 1 <= Len(tpl) /\ tpl[k + 1] = "{"
         THEN lit([lit |-> "{"], k + 2)
         ELSE IF close > Len(tpl)
         THEN [raised |-> "ValueError", out |-> <<>>]
         ELSE IF close = k + 1 \/ tpl[k + 1] \in {":", "!"}
         THEN [raised |-> "IndexError", out |-> <<>>]
         ELSE IF tpl[k + 1] \notin DOMAIN kwargs
         THEN [raised |-> "KeyError", out |-> <<>>]
         ELSE lit([val |-> kwargs[tpl[k + 1]]], close + 1)
    ELSE IF tpl[k] = "}"
    THEN IF k + 1 <= Len(tpl) /\ tpl[k + 1] = "}"
         THEN lit([lit |-> "}"], k + 2)
         ELSE [raised |-> "ValueError", out |-> <<>>]
    ELSE lit([lit |-> tpl[k]], k + 1)

\* HTML_UI.format(result_block=block)
RenderPage(block) == FormatFrom(HTML_UI, 1, [result_block |-> block])

\* the response the client gets for a handler result: the page, or the
\* middleware's 500 when the handler raised
catch_exceptions_middleware(result, dbg) ==
    IF result.raised = ""
    THEN [status |-> 200, kind |-> "html", body |-> result.out]
    ELSE IF dbg
    THEN [status |-> 500, kind |-> "text",
          body |-> <<[traceback |-> result.raised]>>]
    ELSE [status |-> 500, kind |-> "text",
          body |-> <<[lit |-> "Internal Server Error"]>>]

\* b.decode("utf-8", errors="ignore"): invalid units are dropped
decode(b) == SelectSeq(b, LAMBDA u : u >= 0)

----------------------------------------------------------------------------
(* State.                                                                  *)

VARIABLES
    \* one HTTP request and its response (src/index.py, routes)
    pc,             \* "received" | "responded" | "off"
    method,         \* "GET" | "POST"
    has_file,       \* file is not None
    file_bytes,     \* the uploaded payload; a negative unit is an invalid byte
    read_fails,     \* file.read() raises
    has_text,       \* text is not None
    text,           \* the pasted form field
    debug,          \* DEBUG=1 or ?debug=1
    content,
    names,
    unique_names,
    duplicates_map,
    lines,
    result_block,
    response,
    \* one application of the cleaner to a raw token, and a second one
    cpc,            \* "raw" | "cleaned" | "recleaned" | "off"
    raw,
    cleaned,
    recleaned

reqvars == <<pc, method, has_file, file_bytes, read_fails, has_text, text,
             debug, content, names, unique_names, duplicates_map, lines,
             result_block, response>>

tokvars == <<cpc, raw, cleaned, recleaned>>

vars == <<reqvars, tokvars>>

----------------------------------------------------------------------------
(* Bounded inputs of the cleaner.                                          *)

MaxTokPieces == 4

\* "Fo", " ", TAB, "-", "/", '"', U+2018, "(", U+00B7, "fs", "1", " / "
TokPieces ==
    { <<70, 111>>, <<32>>, <<9>>, <<45>>, <<47>>, <<34>>, <<8216>>,
      <<40>>, <<183>>, <<102, 115>>, <<49>>, <<32, 47, 32>> }

RECURSIVE Concats(_, _)
\* all concatenations of at most n pieces
Concats(pieces, n) ==
    IF n = 0 THEN {<<>>}
    ELSE LET prev == Concats(pieces, n - 1)
         IN  prev \cup {p \o t : p \in prev, t \in pieces}

RawTokens == Concats(TokPieces, MaxTokPieces)

NoRequest ==
    /\ pc = "off" /\ method = "GET" /\ has_file = FALSE /\ file_bytes = <<>>
    /\ read_fails = FALSE /\ has_text = FALSE /\ text = <<>> /\ debug = FALSE
    /\ content = <<>> /\ names = <<>> /\ unique_names = <<>>
    /\ duplicates_map = <<>> /\ lines = <<>> /\ result_block = <<>>
    /\ response = [status |-> 0, kind |-> "none", body |-> <<>>]

NoToken ==
    /\ cpc = "off" /\ raw = <<>> /\ cleaned = <<>> /\ recleaned = <<>>

InitClean ==
    /\ NoRequest
    /\ cpc = "raw"
    /\ raw \in RawTokens
    /\ cleaned = <<>>
    /\ recleaned = <<>>

\* cleaned = clean_name_token(raw)
CleanToken ==
    /\ cpc = "raw"
    /\ cleaned' = clean_name_token(raw)
    /\ cpc' = "cleaned"
    /\ UNCHANGED <<raw, recleaned, reqvars>>

\* clean_name_token applied to its own result
CleanAgain ==
    /\ cpc = "cleaned"
    /\ recleaned' = clean_name_token(cleaned)
    /\ cpc' = "recleaned"
    /\ UNCHANGED <<raw, cleaned, reqvars>>

NextClean == CleanToken \/ CleanAgain

SpecClean == InitClean /\ [][NextClean]_vars

----------------------------------------------------------------------------
(* Bounded inputs of the request handlers.                                 *)

MaxLines == 2

INVALID_BYTE == -1

\* the lines the submitted texts are made of
TextLines ==
    {
      <<10024, 32, 80, 105, 58, 32, 109, 97, 108, 101>>,             \* '(sparkle) Pi: male'
      <<10024, 32, 112, 105, 58, 32, 102, 101, 109, 97, 108, 101>>,  \* '(sparkle) pi: female'
      <<10024, 32, 97, 98, 58, 32, 109, 97, 108, 101>>,              \* '(sparkle) ab: male'
      <<80, 105, 58, 32, 109, 97, 108, 101>>,                        \* 'Pi: male'
      <<97, 98, 58>>,                                                \* 'ab:'
      <<111, 102, 58, 32, 109, 97, 108, 101>>,                       \* 'of: male'
      <<10024, 32, 76, 118, 108, 58>>,                               \* '(sparkle) Lvl:'
      <<10024, 32, 80, 105, 32, 34, 120, 34, 58, 32, 109, 97, 108, 101>>, \* '(sparkle) Pi "x": male'
      <<49, 50>>,                                                    \* '12'
      <<10024, 32, 65, 223, 58>>,                                    \* '(sparkle) A(sharp s):'
      <<10024, 32, 65, 83, 83, 58>>,                                 \* '(sparkle) ASS:'
      <<32, 32, 97, 98, 58, 32, 117, 110, 107, 110, 111, 119, 110>>, \* '  ab: unknown'
      <<10024, 71, 97, 32, 80, 105, 58, 32, 109, 97, 108, 101>>,     \* '(sparkle)Ga Pi: male'
      <<10024, 32, 49, 50, 58>>,                                     \* '(sparkle) 12:'
      <<10024, 32, 97, 38, 98, 58>>,                                 \* '(sparkle) a&b:'
      <<>>                                                           \* ''
    }

RECURSIVE JoinedTexts(_)
\* every text of 1..n lines joined by newlines
JoinedTexts(n) ==
    IF n <= 1 THEN TextLines
    ELSE LET prev == JoinedTexts(n - 1)
         IN  prev \cup {p \o <<NEWLINE>> \o l : p \in prev, l \in TextLines}

Texts == {<<>>} \cup JoinedTexts(MaxLines)

\* uploaded payloads: single lines, intact or with an invalid byte after
\* the first character
FilePayloads ==
    TextLines \cup {<<l[1], INVALID_BYTE>> \o Tail(l) : l \in TextLines \ {<<>>}}

\* the text field that accompanies an upload whose read fails
FallbackTexts == {l \in TextLines : Len(l) <= 8}

Init ==
    /\ NoToken
    /\ pc = "received"
    /\ debug \in BOOLEAN
    /\ \/ /\ method = "GET"
          /\ has_file = FALSE /\ file_bytes = <<>> /\ read_fails = FALSE
          /\ has_text = FALSE /\ text = <<>>
       \/ /\ method = "POST"
          /\ has_file = TRUE /\ file_bytes \in FilePayloads /\ read_fails = FALSE
          /\ has_text = FALSE /\ text = <<>>
       \/ /\ method = "POST"
          /\ has_file = TRUE /\ file_bytes = <<>> /\ read_fails = TRUE
          /\ \/ has_text = TRUE /\ text \in FallbackTexts
             \/ has_text = FALSE /\ text = <<>>
       \/ /\ method = "POST"
          /\ has_file = FALSE /\ file_bytes = <<>> /\ read_fails = FALSE
          /\ \/ has_text = TRUE /\ text \in Texts
             \/ has_text = FALSE /\ text = <<>>
    /\ content = <<>> /\ names = <<>> /\ unique_names = <<>>
    /\ duplicates_map = <<>> /\ lines = <<>> /\ result_block = <<>>
    /\ response = [status |-> 0, kind |-> "none", body |-> <<>>]

\* GET / : the empty form, through the middleware
form ==
    /\ pc = "received"
    /\ method = "GET"
    /\ response' = catch_exceptions_middleware(RenderPage(FORM_HINT), debug)
    /\ pc' = "responded"
    /\ UNCHANGED <<method, has_file, file_bytes, read_fails, has_text, text,
                   debug, content, names, unique_names, duplicates_map,
                   lines, result_block, tokvars>>

\* text or ""
TextOrEmpty == IF has_text THEN text ELSE <<>>

\* the content upload works on: the decoded file, else the text field
UploadContent ==
    IF has_file
    THEN (IF read_fails THEN TextOrEmpty ELSE decode(file_bytes))
    ELSE TextOrEmpty

\* the state upload leaves, given the values of its locals
UploadReturn(c, ns, d, ls, rb) ==
    /\ content' = c
    /\ names' = ns
    /\ unique_names' = d.unique_list
    /\ duplicates_map' = d.duplicates_map
    /\ lines' = ls
    /\ result_block' = rb
    /\ response' = catch_exceptions_middleware(RenderPage(rb), debug)

\* result_block = escape("\n".join(lines))
UploadRender(c, ns, d, ls) == UploadReturn(c, ns, d, ls, escape(JoinLines(ls)))

\* build result text
UploadLines(c, ns, d) ==
    UploadRender(c, ns, d, ResultLines(d.unique_list, d.duplicates_map))

\* unique_names, duplicates_map = dedupe_preserve_first(names)
UploadDedupe(c, ns) == UploadLines(c, ns, dedupe_preserve_first(ns))

\* names = extract_names_in_order(content)
UploadExtract(c) == UploadDedupe(c, extract_names_in_order(c))

\* POST / : extract, dedupe, render, through the middleware
upload ==
    /\ pc = "received"
    /\ method = "POST"
    /\ UploadExtract(UploadContent)
    /\ pc' = "responded"
    /\ UNCHANGED <<method, has_file, file_bytes, read_fails, has_text, text,
                   debug, tokvars>>

Next == form \/ upload

Spec == Init /\ [][Next]_vars

----------------------------------------------------------------------------
(* Properties.                                                             *)

\* the POST handler has run
Extracted == pc = "responded" /\ method = "POST"

\* a character a name can start with: a letter or a non-decimal numeral
IsLetter(c) ==
    \/ (c >= 65 /\ c <= 90) \/ (c >= 97 /\ c <= 122)
    \/ c = 170 \/ c = 178 \/ c = 179 \/ c = 181 \/ c = 185 \/ c = 186
    \/ (c >= 188 /\ c <= 190)
    \/ (c >= 192 /\ c <= 214) \/ (c >= 216 /\ c <= 246)
    \/ (c >= 248 /\ c <= 255)

\* a text in which no rule can find a name: no colon, or no letter
NoRecognizableName(t) ==
    \/ COLON \notin Range(t)
    \/ \A i \in DOMAIN t : ~IsLetter(t[i])

\* number of entries of ns whose case-folded form is key
Occurrences(ns, key) == Cardinality({k \in DOMAIN ns : casefold(ns[k]) = key})

\* the names that are keys of the duplicates map
DuplicateNames == {duplicates_map[i][1] : i \in DOMAIN duplicates_map}

\* C1: extract returns a well-formed result for every input (a list of
\* non-empty names and a map of names to counts), and for the empty string
\* and for a text with no recognizable name the unique list and the
\* duplicate map are both empty.
C1_ExtractTotal ==
    Extracted =>
        /\ \A i \in DOMAIN unique_names : unique_names[i] # <<>>
        /\ \A i \in DOMAIN duplicates_map : duplicates_map[i][2] \in Nat
        /\ NoRecognizableName(content) =>
               (unique_names = <<>> /\ duplicates_map = <<>>)

\* a marker line whose token holds no letter was processed
C1_Witness ==
    /\ Extracted
    /\ SPARKLE_CH \in Range(content)
    /\ COLON \in Range(content)
    /\ \A i \in DOMAIN content : ~IsLetter(content[i])
    /\ unique_names = <<>>
    /\ duplicates_map = <<>>

\* C2: the unique list holds no two entries with equal case-folded forms,
\* and each entry is the first-seen spelling of its case-folded key.
C2_UniqueCaseFolded ==
    Extracted =>
        /\ \A i, j \in DOMAIN unique_names :
               i # j => casefold(unique_names[i]) # casefold(unique_names[j])
        /\ \A i \in DOMAIN unique_names :
               \E k \in DOMAIN names :
                   /\ names[k] = unique_names[i]
                   /\ \A j \in 1..(k - 1) :
                          casefold(names[j]) # casefold(unique_names[i])

\* two different spellings of one key were extracted, one of them with a
\* character whose case-folded form is longer than its lower-case form
C2_Witness ==
    /\ Extracted
    /\ Len(unique_names) = 1
    /\ \E i, j \in DOMAIN names :
           /\ names[i] # names[j]
           /\ Len(casefold(names[i])) # Len(names[i])

\* C3: every key of the duplicate map is in the unique list, its value is
\* the number of occurrences of its case-folded key in the cleaned sequence
\* minus one and is positive, and a name whose key occurs once is no key of
\* the map.
C3_DuplicateCounts ==
    Extracted =>
        /\ \A i \in DOMAIN duplicates_map :
               /\ duplicates_map[i][1] \in Range(unique_names)
               /\ duplicates_map[i][2] >= 1
               /\ duplicates_map[i][2] =
                      Occurrences(names, casefold(duplicates_map[i][1])) - 1
        /\ \A i \in DOMAIN unique_names :
               Occurrences(names, casefold(unique_names[i])) = 1
                   => unique_names[i] \notin DuplicateNames

\* a name that occurs three times or more next to a name that occurs once
C3_Witness ==
    /\ Extracted
    /\ \E i \in DOMAIN duplicates_map : duplicates_map[i][2] >= 2
    /\ \E i \in DOMAIN unique_names : unique_names[i] \notin DuplicateNames

RECURSIVE SplitLines(_)
\* the lines of a text
SplitLines(t) ==
    LET j == Find(t, <<NEWLINE>>, 1)
    IN  IF j > Len(t) THEN <<t>>
        ELSE <<SubSeq(t, 1, j - 1)>> \o SplitLines(Tail_(t, j + 1))

\* a line of the form (sparkle) <Name>: <gender>
IsMarkerGenderLine(l) ==
    LET j == Find(l, <<COLON>>, 1)
    IN  /\ Len(l) >= 4
        /\ l[1] = SPARKLE_CH
        /\ l[2] = SPACE
        /\ j >= 4
        /\ j + 1 <= Len(l)
        /\ \A k \in 3..(j - 1) : IsLetter(l[k])
        /\ l[j + 1] = SPACE
        /\ SubSeq(l, j + 2, Len(l)) \in Range(GENDERS)

\* the name such a line carries
MarkerLineName(l) == SubSeq(l, 3, Find(l, <<COLON>>, 1) - 1)

\* C4: for an input made only of lines (sparkle) <Name>: <gender>, a name
\* written on exactly one line is absent from the duplicate map and a name
\* written on n > 1 lines (compared case-insensitively) is mapped to n - 1.
C4_OneLineOneOccurrence ==
    (Extracted /\ \A k \in DOMAIN SplitLines(content) :
                      IsMarkerGenderLine(SplitLines(content)[k]))
    => LET ls == SplitLines(content)
       IN  \A k \in DOMAIN ls :
               LET key == casefold(MarkerLineName(ls[k]))
                   cnt == Cardinality({m \in DOMAIN ls :
                              casefold(MarkerLineName(ls[m])) = key})
               IN  IF cnt = 1
                   THEN \A i \in DOMAIN duplicates_map :
                            casefold(duplicates_map[i][1]) # key
                   ELSE \E i \in DOMAIN duplicates_map :
                            /\ casefold(duplicates_map[i][1]) = key
                            /\ duplicates_map[i][2] = cnt - 1

\* offset of the first raw match, over all three rules, that yields name u
FirstMatchStart(t, u) ==
    LET ms == CollectMatches(t)
    IN  Min({ms[k][1] : k \in {x \in DOMAIN ms : casefold(ms[x][2]) = casefold(u)}})

\* C5: when A's first raw match starts at an earlier offset than B's first
\* raw match, A precedes B in the unique list.
C5_OrderPreserved ==
    Extracted =>
        \A a, b \in DOMAIN unique_names :
            FirstMatchStart(content, unique_names[a])
                < FirstMatchStart(content, unique_names[b])
            => a < b

\* two names, and the rules found the later one first
C5_Witness ==
    /\ Extracted
    /\ Len(unique_names) >= 2
    /\ LET ms == CollectMatches(content)
       IN  \E i, j \in DOMAIN ms :
               /\ i < j
               /\ ms[i][1] > ms[j][1]
               /\ casefold(ms[i][2]) # casefold(ms[j][2])

\* C6: cleaning is idempotent: cleaning a cleaned token gives it back.
C6_CleanIdempotent ==
    cpc = "recleaned" => recleaned = cleaned

\* lvl, your, poketwo (with U+00E9), app, showing, entries, out, of
NOISE_WORDS ==
    { <<108, 118, 108>>, <<121, 111, 117, 114>>,
      <<112, 111, 107, 233, 116, 119, 111>>, <<97, 112, 112>>,
      <<115, 104, 111, 119, 105, 110, 103>>,
      <<101, 110, 116, 114, 105, 101, 115>>, <<111, 117, 116>>,
      <<111, 102>> }

\* C7: no entry of the unique list is, case-folded, a rejection-list word.
C7_NoNoiseWords ==
    Extracted =>
        \A i \in DOMAIN unique_names : casefold(unique_names[i]) \notin NOISE_WORDS

\* the 'name: count' line of one entry of the duplicates map
EntryLine(e) == e[1] \o <<COLON, SPACE>> \o IntToStr(e[2])

\* C8: the duplicate lines of the result are the entries of the duplicate
\* map in ascending order of their case-folded names.
C8_DuplicatesSorted ==
    (Extracted /\ duplicates_map # <<>>) =>
        LET n == Len(duplicates_map)
            base == Len(lines) - n
        IN  /\ base >= 1
            /\ lines[base] = DUPLICATES_HEADER
            /\ \A k \in 1..n :
                   \E i \in DOMAIN duplicates_map :
                       lines[base + k] = EntryLine(duplicates_map[i])
            /\ \A k \in 1..(n - 1) :
                   \E i, j \in DOMAIN duplicates_map :
                       /\ lines[base + k] = EntryLine(duplicates_map[i])
                       /\ lines[base + k + 1] = EntryLine(duplicates_map[j])
                       /\ StrLess(casefold(duplicates_map[i][1]),
                                  casefold(duplicates_map[j][1]))

\* two duplicated names whose first-seen order and whose case-sensitive
\* order both differ from the case-insensitive order
C8_Witness ==
    /\ Extracted
    /\ Len(duplicates_map) >= 2
    /\ StrLess(duplicates_map[1][1], duplicates_map[2][1])
    /\ StrLess(casefold(duplicates_map[2][1]), casefold(duplicates_map[1][1]))

\* C9: every GET and every POST is answered with the HTML page with the
\* result block filled in, never with the 500 failure response.
C9_PageReturned ==
    pc = "responded" =>
        /\ response.status = 200
        /\ response.kind = "html"
        /\ \E k \in DOMAIN response.body :
               response.body[k] =
                   [val |-> IF method = "GET" THEN FORM_HINT ELSE result_block]

\* straight and curly, single and double, opening and closing
ALL_QUOTES == {34, 39, 8216, 8217, 8220, 8221}

\* C10: a cleaned name never contains a quote character.
C10_NoQuoteInCleaned ==
    cpc \in {"cleaned", "recleaned"} =>
        \A i \in DOMAIN cleaned : cleaned[i] \notin ALL_QUOTES

\* The separators named by the separator-truncation rule: " - ", " — ",
\* " – ", " / " and the dash variants without the trailing space.
NAMED_SEPARATORS ==
    { <<32, 45, 32>>, <<32, 8212, 32>>, <<32, 8211, 32>>, <<32, 47, 32>>,
      <<32, 45>>, <<32, 8212>>, <<32, 8211>> }

\* 1-based index of the first occurrence of any named separator in s,
\* Len(s) + 1 when there is none.
FirstSeparator(s) ==
    Min({Len(s) + 1} \cup {Find(s, sep, 1) : sep \in NAMED_SEPARATORS})

BeforeFirstSeparator(s) == SubSeq(s, 1, FirstSeparator(s) - 1)

HasLetter(s) == \E i \in DOMAIN s : IsLetter(s[i])

====
